---------------------------- MODULE Spec2Model ----------------------------
(***************************************************************************)
(* A model of the Olympics data-quality pipeline's core: code             *)
(* normalization, code-map loading and harmonization, the reference       *)
(* (countries) and fact (summer) classifiers of split_quarantine.py and   *)
(* the harmonization step of check_integrity.py.                           *)
(*                                                                         *)
(* A string is a sequence of one-character strings; the pandas missing    *)
(* value (NaN / <NA>) is the value NA.  A table (DataFrame) is a sequence  *)
(* of rows, each a record holding its index label idx and its columns; a  *)
(* dict is a function whose DOMAIN is its key set.                         *)
(***************************************************************************)
EXTENDS Integers, Sequences, FiniteSets, TLC

(***************************************************************************)
(* Strings                                                                 *)
(***************************************************************************)
NA == <<"<NA>">>

Whitespace == {" ", "\t", "\n"}

LowerLetters == <<"a","b","c","d","e","f","g","h","i","j","k","l","m",
                  "n","o","p","q","r","s","t","u","v","w","x","y","z">>

UpperLetters == <<"A","B","C","D","E","F","G","H","I","J","K","L","M",
                  "N","O","P","Q","R","S","T","U","V","W","X","Y","Z">>

Range(f) == {f[i] : i \in DOMAIN f}

IsLower(c) == c \in Range(LowerLetters)

IsUpper(c) == c \in Range(UpperLetters)

\* str.upper on one character
UpperChar(c) ==
    IF IsLower(c)
        THEN UpperLetters[CHOOSE i \in DOMAIN LowerLetters : LowerLetters[i] = c]
        ELSE c

\* str.upper
StrUpper(t) == [i \in DOMAIN t |-> UpperChar(t[i])]

RECURSIVE LStrip(_)
LStrip(t) ==
    IF t # <<>> /\ Head(t) \in Whitespace THEN LStrip(Tail(t)) ELSE t

RECURSIVE RStrip(_)
RStrip(t) ==
    IF t # <<>> /\ t[Len(t)] \in Whitespace
        THEN RStrip(SubSeq(t, 1, Len(t) - 1))
        ELSE t

\* a strip that removes at most one whitespace character from each end
StrStripOnce(t) ==
    LET l == IF t # <<>> /\ Head(t) \in Whitespace THEN Tail(t) ELSE t
    IN  IF l # <<>> /\ l[Len(l)] \in Whitespace
            THEN SubSeq(l, 1, Len(l) - 1)
            ELSE l

\* str.strip
StrStrip(t) == RStrip(LStrip(t))

\* Series.isna / Series.notna on one value
IsNA(v) == v = NA

\* Series.str.strip on one value of a "string" Series: <NA> stays <NA>
StripValue(v) == IF IsNA(v) THEN NA ELSE StrStrip(v)

\* (Series.astype("string").str.strip() == "") on one value; on <NA> the
\* comparison is <NA>, and the code always ORs it with isna()
IsBlankStr(v) == ~IsNA(v) /\ StrStrip(v) = <<>>

\* col.isna() | (col.astype("string").str.strip() == "") on one value
IsMissingStr(v) == IsNA(v) \/ IsBlankStr(v)

(***************************************************************************)
(* Bounds of the model                                                     *)
(***************************************************************************)
\* longest string of an input series of the normalizer specification
MaxStrLen == 3

\* longest input series of the normalizer specification
MaxSeriesLen == 2

\* characters of the strings of the normalizer specification, and the
\* strings it holds besides those over NormChars
NormChars == {" ", "a"}

NormExtra == {<<"B">>, <<"\t", "b", "1", "\n">>, <<"N", "A", "N">>}

RECURSIVE StringsUpTo(_, _)
StringsUpTo(chars, n) ==
    IF n = 0 THEN {<<>>}
    ELSE LET shorter == StringsUpTo(chars, n - 1)
         IN  shorter \cup {Append(t, c) : t \in shorter, c \in chars}

NormValues == {NA} \cup StringsUpTo(NormChars, MaxStrLen) \cup NormExtra

RECURSIVE SeqsUpTo(_, _)
SeqsUpTo(S, n) ==
    IF n = 0 THEN {<<>>}
    ELSE LET shorter == SeqsUpTo(S, n - 1)
         IN  shorter \cup {Append(q, x) : q \in shorter, x \in S}

(***************************************************************************)
(* The three code normalizers                                              *)
(***************************************************************************)
\* astype(str) applied to every value, missing ones included: NaN becomes
\* the text "nan", which the upper-casing turns into "NAN"
NormalizeLosingNA(s) ==
    [i \in DOMAIN s |->
        IF IsNA(s[i]) THEN <<"N", "A", "N">> ELSE StrUpper(StrStrip(s[i]))]

\* split_quarantine._normalize_code_series: astype("string") keeps <NA>, and
\* .str.strip() and .str.upper() skip it
_normalize_code_series(s) ==
    LET s2 == [i \in DOMAIN s |-> StripValue(s[i])]
    IN  [i \in DOMAIN s2 |-> IF IsNA(s2[i]) THEN NA ELSE StrUpper(s2[i])]

\* check_integrity.normalize_code_series: only the notna() positions are
\* rewritten
normalize_code_series(s) ==
    LET mask == [i \in DOMAIN s |-> ~IsNA(s[i])]
    IN  [i \in DOMAIN s |-> IF mask[i] THEN StrUpper(StrStrip(s[i])) ELSE s[i]]

\* validate_summer.normalize_code, on a frame whose rows hold a Code column
normalize_code(df) ==
    LET non_null == [i \in DOMAIN df |-> ~IsNA(df[i].Code)]
    IN  [i \in DOMAIN df |->
            IF non_null[i]
                THEN [df[i] EXCEPT !.Code = StrUpper(StrStrip(df[i].Code))]
                ELSE df[i]]

\* the frame whose only column is the Code series s, and its Code column
CodeFrame(s) == [i \in DOMAIN s |-> [idx |-> i, Code |-> s[i]]]

CodeColumn(df) == [i \in DOMAIN df |-> df[i].Code]

(***************************************************************************)
(* Configuration of split_quarantine.py                                    *)
(***************************************************************************)
sGold == <<"G","o","l","d">>
sSilver == <<"S","i","l","v","e","r">>
sBronze == <<"B","r","o","n","z","e">>
sMen == <<"M","e","n">>
sWomen == <<"W","o","m","e","n">>
sBOH == <<"B","O","H">>
sBohemia == <<"B","o","h","e","m","i","a">>

VALID_GENDERS == {sMen, sWomen}

\* a medal set that takes the lower-case spelling too
ValidMedalsAnyCase == {sGold, sSilver, sBronze, <<"g", "o", "l", "d">>}

VALID_MEDALS == {sGold, sSilver, sBronze}

\* the earliest year split_summer accepts
MinYear == 1896

\* Series.str.match(CODE_REGEX, na=False) on one value, CODE_REGEX being
\* ^[A-Z]{3}$: re.match anchors at the start, and $ also matches before a
\* final newline
MatchesCodeRegex(v) ==
    /\ ~IsNA(v)
    /\ \/ Len(v) = 3
       \/ Len(v) = 4 /\ v[4] = "\n"
    /\ \A k \in 1..3 : IsUpper(v[k])

\* a reason label, written as a one-element sequence holding its text so
\* that it compares with NA
MISSING_REQUIRED == <<"missing_required">>
INVALID_CODE_FORMAT == <<"invalid_code_format">>
INVALID_MEDAL == <<"invalid_medal">>
INVALID_YEAR == <<"invalid_year">>
INVALID_GENDER == <<"invalid_gender">>
CODE_NOT_IN_COUNTRIES == <<"code_not_in_countries">>

(***************************************************************************)
(* Helpers of the tables                                                   *)
(***************************************************************************)
\* Series.fillna("") on one value
FillNA(v) == IF IsNA(v) THEN <<>> ELSE v

\* dict(zip(keys, vals)): a later pair overrides an earlier one with its key
DictZip(keys, vals) ==
    [k \in Range(keys) |->
        vals[CHOOSE i \in DOMAIN keys :
                /\ keys[i] = k
                /\ \A j \in DOMAIN keys : keys[j] = k => j <= i]]

\* d.pop(k, None)
DictPop(d, k) == [x \in DOMAIN d \ {k} |-> d[x]]

\* d[k] = v
DictSet(d, k, v) == [x \in DOMAIN d \cup {k} |-> IF x = k THEN v ELSE d[x]]

\* Series.map(d) on one value: a value that is no key gives <NA>
MapValue(v, d) == IF v \in DOMAIN d THEN d[v] ELSE NA

\* a replace that looks the replaced value up again
ReplaceValueTransitive(v, d) ==
    IF v \in DOMAIN d
        THEN (IF d[v] \in DOMAIN d THEN d[d[v]] ELSE d[v])
        ELSE v

\* Series.map(d) in the place of Series.replace(d): a value that is no key
\* becomes null
ReplaceValueAsMap(v, d) == IF v \in DOMAIN d THEN d[v] ELSE NA

\* Series.replace(d) on one value: one lookup of the original value
ReplaceValue(v, d) == IF v \in DOMAIN d THEN d[v] ELSE v

\* the rows of df at the positions where keep holds, in their order
RECURSIVE FilterRows(_, _)
FilterRows(df, keep) ==
    IF Len(df) = 0 THEN <<>>
    ELSE LET n == Len(df)
             front == FilterRows(SubSeq(df, 1, n - 1), SubSeq(keep, 1, n - 1))
         IN  IF keep[n] THEN Append(front, df[n]) ELSE front

(***************************************************************************)
(* _first_reason                                                           *)
(***************************************************************************)
\* a turn that lets a later label overwrite an earlier one
MaskReasonLastWins(reason, mask, label) ==
    [i \in DOMAIN reason |-> IF mask[i] THEN label ELSE reason[i]]

\* one turn of the loop: reason.mask(mask & reason.isna(), label)
MaskReason(reason, mask, label) ==
    [i \in DOMAIN reason |-> IF mask[i] /\ IsNA(reason[i]) THEN label ELSE reason[i]]

RECURSIVE FirstReasonLoop(_, _, _, _)
FirstReasonLoop(reason, series_list, labels, k) ==
    IF k > Len(series_list) THEN reason
    ELSE FirstReasonLoop(MaskReason(reason, series_list[k], labels[k]),
                         series_list, labels, k + 1)

\* n is the length of the index of series_list[0]
_first_reason(n, series_list, labels) ==
    FirstReasonLoop([i \in 1..n |-> NA], series_list, labels, 1)

(***************************************************************************)
(* _load_code_map and _apply_mapping                                       *)
(***************************************************************************)
Column(df, col) == [i \in DOMAIN df |-> df[i][col]]

SetCode(df, codes) == [i \in DOMAIN df |-> [df[i] EXCEPT !.Code = codes[i]]]

\* m holds the rows of code_map.csv, columns from_code and to_code
_load_code_map(m) ==
    LET from_col == _normalize_code_series(Column(m, "from_code"))
        to_col   == _normalize_code_series(Column(m, "to_code"))
        mapping  == DictZip([i \in DOMAIN m |-> FillNA(from_col[i])],
                            [i \in DOMAIN m |-> FillNA(to_col[i])])
    IN  DictPop(mapping, <<>>)

_apply_mapping(df, mapping) ==
    LET out == SetCode(df, _normalize_code_series(Column(df, "Code")))
    IN  SetCode(out, [i \in DOMAIN out |-> ReplaceValue(out[i].Code, mapping)])

(***************************************************************************)
(* split_countries                                                         *)
(***************************************************************************)
WithReason(df, reason) ==
    [i \in DOMAIN df |->
        [c \in DOMAIN df[i] \cup {"quarantine_reason"} |->
            IF c = "quarantine_reason" THEN reason[i] ELSE df[i][c]]]

\* a cut whose clean frame keeps every row
PartitionKeepAll(df) ==
    [clean      |-> df,
     quarantine |-> FilterRows(df, [i \in DOMAIN df |-> ~IsNA(df[i].quarantine_reason)])]

\* the two frames cut from df by its quarantine_reason column
Partition(df) ==
    [clean      |-> FilterRows(df, [i \in DOMAIN df |-> IsNA(df[i].quarantine_reason)]),
     quarantine |-> FilterRows(df, [i \in DOMAIN df |-> ~IsNA(df[i].quarantine_reason)])]

\* the reference classifier with its two rules in the other order
SplitCountriesFormatFirst(df_countries) ==
    LET df == SetCode(df_countries, _normalize_code_series(Column(df_countries, "Code")))
        missing_required ==
            [i \in DOMAIN df |-> IsMissingStr(df[i].Country) \/ IsMissingStr(df[i].Code)]
        invalid_code_format ==
            [i \in DOMAIN df |-> IsNA(df[i].Code) \/ ~MatchesCodeRegex(df[i].Code)]
        reason == _first_reason(Len(df),
                                <<invalid_code_format, missing_required>>,
                                <<INVALID_CODE_FORMAT, MISSING_REQUIRED>>)
    IN  Partition(WithReason(df, reason))

COUNTRIES_REQUIRED_COLS == {"Country", "Code"}

\* col is a column of the frame df
HasColumn(df, col) == \A i \in DOMAIN df : col \in DOMAIN df[i]

\* line 116: df.get("Code") is None when the column is absent, and
\* _normalize_code_series(None) raises AttributeError
split_countries_raises(df_countries) == ~HasColumn(df_countries, "Code")

split_countries(df_countries) ==
    LET df == SetCode(df_countries, _normalize_code_series(Column(df_countries, "Code")))
        missing_required ==
            [i \in DOMAIN df |->
                \E col \in COUNTRIES_REQUIRED_COLS :
                    col \notin DOMAIN df[i] \/ IsMissingStr(df[i][col])]
        invalid_code_format ==
            [i \in DOMAIN df |-> IsNA(df[i].Code) \/ ~MatchesCodeRegex(df[i].Code)]
        reason == _first_reason(Len(df),
                                <<missing_required, invalid_code_format>>,
                                <<MISSING_REQUIRED, INVALID_CODE_FORMAT>>)
    IN  Partition(WithReason(df, reason))

\* main, lines 262-275: the code-to-name lookup; the set of valid codes is
\* its key set (line 277)
BuildCodeToCountry(countries_clean) ==
    LET codes == _normalize_code_series(Column(countries_clean, "Code"))
        names == [i \in DOMAIN countries_clean |-> StripValue(countries_clean[i].Country)]
        d     == DictZip([i \in DOMAIN codes |-> FillNA(codes[i])],
                         [i \in DOMAIN names |-> FillNA(names[i])])
    IN  DictSet(DictPop(d, <<>>), sBOH, sBohemia)

(***************************************************************************)
(* split_summer                                                            *)
(***************************************************************************)
Digits == <<"0","1","2","3","4","5","6","7","8","9">>

IsDigit(c) == c \in Range(Digits)

DigitValue(c) == (CHOOSE i \in DOMAIN Digits : Digits[i] = c) - 1

RECURSIVE DecimalValue(_)
DecimalValue(t) ==
    IF t = <<>> THEN 0
    ELSE 10 * DecimalValue(SubSeq(t, 1, Len(t) - 1)) + DigitValue(t[Len(t)])

\* pd.to_numeric(errors="coerce") on one cell, a cell being NA or the text of
\* the value: a number parses to itself, anything else is coerced to NaN
ToNumeric(v) ==
    IF ~IsNA(v) /\ v # <<>> /\ \A k \in DOMAIN v : IsDigit(v[k])
        THEN [isna |-> FALSE, num |-> DecimalValue(v)]
        ELSE [isna |-> TRUE, num |-> 0]

\* lines 156-163: Code normalized, Gender, Medal and Country stripped
NormalizeSummer(df_summer) ==
    LET codes == _normalize_code_series(Column(df_summer, "Code"))
    IN  [i \in DOMAIN df_summer |->
            [c \in DOMAIN df_summer[i] |->
                CASE c = "Code" -> codes[i]
                  [] c \in {"Gender", "Medal", "Country"} -> StripValue(df_summer[i][c])
                  [] OTHER -> df_summer[i][c]]]

\* a backfill that fills a null Country and leaves an empty one
BackfillCountryNullOnly(df, code_to_country) ==
    [i \in DOMAIN df |->
        IF IsNA(df[i].Country)
            THEN [df[i] EXCEPT !.Country = MapValue(df[i].Code, code_to_country)]
            ELSE df[i]]

\* lines 170-173: a missing Country is filled from the lookup by Code
BackfillCountry(df, code_to_country) ==
    LET missing_country_mask ==
            [i \in DOMAIN df |->
                /\ "Country" \in DOMAIN df[i]
                /\ "Code" \in DOMAIN df[i]
                /\ IsMissingStr(df[i].Country)]
    IN  [i \in DOMAIN df |->
            IF missing_country_mask[i]
                THEN [df[i] EXCEPT !.Country = MapValue(df[i].Code, code_to_country)]
                ELSE df[i]]

\* the columns of SUMMER_REQUIRED_COLS checked for null or blank text
SUMMER_TEXT_COLS ==
    {"City", "Sport", "Discipline", "Athlete", "Code", "Gender", "Event", "Medal", "Country"}

\* the required-field rule without the test for blank text
MissingRequiredNullOnly(r) ==
    \/ \E col \in SUMMER_TEXT_COLS : IsNA(r[col])
    \/ IsNA(r.Year)

\* lines 176-185, for one row
MissingRequiredSummer(r) ==
    \/ \E col \in SUMMER_TEXT_COLS : col \notin DOMAIN r \/ IsMissingStr(r[col])
    \/ "Year" \notin DOMAIN r \/ IsNA(r.Year)

\* the year rule without its lower bound
InvalidYearNoLowerBound(r, current_year) ==
    LET year_num == ToNumeric(r.Year)
    IN  year_num.isna \/ year_num.num > current_year

\* the year rule with the current year itself refused
InvalidYearExclusiveUpper(r, current_year) ==
    LET year_num == ToNumeric(r.Year)
    IN  year_num.isna \/ year_num.num < MinYear \/ year_num.num >= current_year

\* line 202, for one row
InvalidYear(r, current_year) ==
    LET year_num == ToNumeric(r.Year)
    IN  year_num.isna \/ year_num.num < MinYear \/ year_num.num > current_year

\* lines 187-228: the six masks and the reason of every row of df
SummerReasons(df, countries_codes, current_year) ==
    LET missing_required == [i \in DOMAIN df |-> MissingRequiredSummer(df[i])]
        invalid_code_format ==
            [i \in DOMAIN df |-> IsNA(df[i].Code) \/ ~MatchesCodeRegex(df[i].Code)]
        invalid_medal ==
            [i \in DOMAIN df |-> df[i].Medal \notin VALID_MEDALS \/ IsNA(df[i].Medal)]
        invalid_gender ==
            [i \in DOMAIN df |-> df[i].Gender \notin VALID_GENDERS \/ IsNA(df[i].Gender)]
        invalid_year == [i \in DOMAIN df |-> InvalidYear(df[i], current_year)]
        code_not_in_countries ==
            [i \in DOMAIN df |->
                /\ IsNA(df[i].Code) \/ df[i].Code \notin countries_codes
                /\ ~missing_required[i]]
    IN  _first_reason(Len(df),
            << missing_required,
               [i \in DOMAIN df |-> invalid_code_format[i] /\ ~missing_required[i]],
               [i \in DOMAIN df |-> invalid_medal[i] /\ ~missing_required[i]],
               [i \in DOMAIN df |-> invalid_year[i] /\ ~missing_required[i]],
               [i \in DOMAIN df |-> invalid_gender[i] /\ ~missing_required[i]],
               code_not_in_countries >>,
            << MISSING_REQUIRED, INVALID_CODE_FORMAT, INVALID_MEDAL,
               INVALID_YEAR, INVALID_GENDER, CODE_NOT_IN_COUNTRIES >>)

\* a classifier that raises on any absent required column
SplitSummerRaisesOnAnyAbsent(df_summer) ==
    \E col \in SUMMER_TEXT_COLS \cup {"Year"} : ~HasColumn(df_summer, col)

\* split_summer raises when Code is absent (line 157, as in split_countries),
\* when Medal or Gender is (KeyError at lines 194 and 197), and when Year is
\* (line 200: to_numeric(None) is no Series, so line 202 raises
\* AttributeError); the other columns are only read under "col in df.columns"
split_summer_raises(df_summer) ==
    \E col \in {"Code", "Medal", "Gender", "Year"} : ~HasColumn(df_summer, col)

\* current_year is datetime.now().year as read at line 201
split_summer(df_summer, countries_codes, code_to_country, current_year) ==
    LET df == BackfillCountry(NormalizeSummer(df_summer), code_to_country)
    IN  Partition(WithReason(df, SummerReasons(df, countries_codes, current_year)))

(***************************************************************************)
(* check_integrity.py                                                      *)
(***************************************************************************)
\* an allowlist that exempts nothing
EmptyAllowlist == {}

HISTORICAL_CODE_ALLOWLIST == {sBOH}

FAIL_ON_NULL_CODES == FALSE

\* the number of codes the samples of the summary hold at most
SampleCap == 25

\* the characters in code-point order, for sorted()
CharOrder == <<"\t", "\n", " ">> \o Digits \o UpperLetters \o LowerLetters

CharRank(c) == CHOOSE i \in DOMAIN CharOrder : CharOrder[i] = c

RECURSIVE StrLess(_, _)
StrLess(a, b) ==
    IF b = <<>> THEN FALSE
    ELSE IF a = <<>> THEN TRUE
    ELSE IF Head(a) = Head(b) THEN StrLess(Tail(a), Tail(b))
    ELSE CharRank(Head(a)) < CharRank(Head(b))

\* sorted(S) for a set of strings
RECURSIVE SortedStrings(_)
SortedStrings(S) ==
    IF S = {} THEN <<>>
    ELSE LET least == CHOOSE x \in S : \A y \in S \ {x} : StrLess(x, y)
         IN  <<least>> \o SortedStrings(S \ {least})

\* a slice that keeps the whole list
TakeAll(q, n) == q

Take(q, n) == SubSeq(q, 1, IF Len(q) < n THEN Len(q) ELSE n)

CountTrue(mask) == Cardinality({i \in DOMAIN mask : mask[i]})

\* a != b on two cells of object dtype: NaN differs from everything, NaN included
CellsDiffer(a, b) == IsNA(a) \/ IsNA(b) \/ a # b

\* check_integrity.load_code_map: the pairs are zipped as they are, a null
\* from_code (NaN, one key) and a blank one ("") included
load_code_map(m) ==
    DictZip(normalize_code_series(Column(m, "from_code")),
            normalize_code_series(Column(m, "to_code")))

\* lines 70-79: the fact rows with Code normalized and, when code_map is not
\* empty, rewritten through it (Code_raw keeps the normalized code)
Harmonize(summer_df, code_map) ==
    LET summer == SetCode(summer_df, normalize_code_series(Column(summer_df, "Code")))
    IN  IF DOMAIN code_map # {}
            THEN [i \in DOMAIN summer |->
                    [c \in DOMAIN summer[i] \cup {"Code_raw"} |->
                        CASE c = "Code_raw" -> summer[i].Code
                          [] c = "Code"     -> ReplaceValue(summer[i].Code, code_map)
                          [] OTHER          -> summer[i][c]]]
            ELSE summer

\* a code set taken from the reference rows that have a name only
ValidCodesNamedOnly(countries) ==
    {countries[i].Code : i \in {k \in DOMAIN countries : ~IsMissingStr(countries[k].Country)}}
        \ {NA}

\* line 84: set(countries["Code"].dropna().unique().tolist())
ValidCodes(countries) == {countries[i].Code : i \in DOMAIN countries} \ {NA}

\* a policy that fails on null codes whatever the flag says
ShouldFailOnAnyBad(bad_null_code, strict) == bad_null_code > 0 \/ strict > 0

\* lines 118-122
ShouldFail(bad_null_code, strict) ==
    (FAIL_ON_NULL_CODES /\ bad_null_code > 0) \/ strict > 0

find_bad_code_rows(summer_df, countries_df, code_map) ==
    LET summer    == Harmonize(summer_df, code_map)
        countries == SetCode(countries_df,
                             normalize_code_series(Column(countries_df, "Code")))
        mapped_count ==
            IF DOMAIN code_map # {}
                THEN CountTrue([i \in DOMAIN summer |->
                                    CellsDiffer(summer[i].Code_raw, summer[i].Code)])
                ELSE 0
        valid_codes  == ValidCodes(countries)
        code_is_null == [i \in DOMAIN summer |-> IsNA(summer[i].Code)]
        code_not_in  == [i \in DOMAIN summer |-> summer[i].Code \notin valid_codes]
        bad_mask     == [i \in DOMAIN summer |-> code_is_null[i] \/ code_not_in[i]]
        bad_rows     == FilterRows(summer, bad_mask)
        unique_bad_codes ==
            SortedStrings({bad_rows[i].Code : i \in DOMAIN bad_rows} \ {NA})
        not_in_codes_strict ==
            SortedStrings(Range(unique_bad_codes) \ HISTORICAL_CODE_ALLOWLIST)
        bad_null_code == CountTrue(code_is_null)
        strict == Len(not_in_codes_strict)
    IN  [bad_rows |-> bad_rows,
         summary  |->
            [summer_rows_total |-> Len(summer),
             countries_rows_total |-> Len(countries),
             valid_country_codes_count |-> Cardinality(valid_codes),
             mapped_rows_count |-> mapped_count,
             bad_rows_total |-> Len(bad_rows),
             bad_rows_null_code |-> bad_null_code,
             bad_rows_code_not_in_countries |->
                CountTrue([i \in DOMAIN summer |-> ~code_is_null[i] /\ code_not_in[i]]),
             unique_bad_codes_count |-> Len(unique_bad_codes),
             unique_bad_codes_sample |-> Take(unique_bad_codes, SampleCap),
             bad_rows_code_not_in_countries_strict |-> strict,
             unique_bad_codes_strict_sample |-> Take(not_in_codes_strict, SampleCap),
             fail_on_null_codes |-> FAIL_ON_NULL_CODES,
             should_fail |-> ShouldFail(bad_null_code, strict)]]

(***************************************************************************)
(* Input values                                                            *)
(***************************************************************************)
\* most rows of a table of the run, of a reference table of the countries
\* specification, of a mapping table of the mapping specification, and most
\* fields of a fact row of the summer specification that differ from BaseFact
MaxFactRows == 2
MaxRefRows == 2
MaxMapRows == 2
MaxDefects == 2

sSRB == <<"S","R","B">>
sSrbPadded == <<" ","s","r","b"," ">>
sSCG == <<"S","C","G">>
sScgPadded == <<"s","c","g"," ">>
sGER == <<"G","E","R">>
sSR == <<"S","R">>
sS1B == <<"S","1","B">>
sBlank == <<" ">>
sSerbia == <<"S","e","r","b","i","a">>
sSerbiaPadded == <<" ","S","e","r","b","i","a">>
sSrbija == <<"S","r","b","i","j","a">>
sText == <<"x">>
s1850 == <<"1","8","5","0">>
s1896 == <<"1","8","9","6">>
s2026 == <<"2","0","2","6">>
s2027 == <<"2","0","2","7">>

\* the values datetime.now().year may have when split_summer reads it
ClockYears == {2026, 2027}

FactCols ==
    {"Year", "City", "Sport", "Discipline", "Athlete", "Code", "Gender", "Event",
     "Medal", "Country"}

\* a fact row that passes every rule against a reference holding SRB
BaseFact ==
    [Year |-> s1896, City |-> sText, Sport |-> sText, Discipline |-> sText,
     Athlete |-> sText, Code |-> sSRB, Gender |-> sMen, Event |-> sText,
     Medal |-> sGold, Country |-> sSerbia]

\* the other values a field of a fact row takes in the summer specification
FieldAlts ==
    [c \in FactCols |->
        CASE c = "Year"    -> {NA, s1850, s2026, s2027, sText}
          [] c = "Code"    -> {NA, sBlank, sSrbPadded, sSR, sGER, sBOH}
          [] c = "Gender"  -> {NA, sWomen, <<" ">> \o sMen, <<"m","e","n">>}
          [] c = "Medal"   -> {NA, sGold \o <<" ">>, <<"g","o","l","d">>}
          [] c = "Country" -> {NA, sBlank}
          [] OTHER         -> {NA, sBlank}]

\* the fact rows that differ from BaseFact in at most k fields
RECURSIVE FactRowsWithin(_)
FactRowsWithin(k) ==
    IF k = 0 THEN {BaseFact}
    ELSE LET fewer == FactRowsWithin(k - 1)
         IN  fewer \cup {[r EXCEPT ![c] = v] : r \in fewer, <<c, v>> \in
                            UNION {{<<col, alt>> : alt \in FieldAlts[col]} : col \in FactCols}}

\* the fact rows of the run: each differs from BaseFact in Code and Country,
\* or in Medal, or in Year
RunFactRows ==
    {[BaseFact EXCEPT !.Code = c, !.Country = n] :
        c \in {sSRB, sScgPadded, sBOH, sGER, NA}, n \in {sSerbia}}
    \cup {[BaseFact EXCEPT !.Country = NA],
          [BaseFact EXCEPT !.Medal = NA],
          [BaseFact EXCEPT !.Year = s2027]}

\* the reference rows of the countries specification
RefRows ==
    [Country : {NA, <<>>, sBlank, sSerbia, sSerbiaPadded, sSrbija},
     Code    : {NA, sBlank, sSRB, sSrbPadded, sSR, sS1B, sBOH}]

\* the reference rows of the run
RunRefRows ==
    {[Country |-> sSerbia, Code |-> sSrbPadded],
     [Country |-> sBlank, Code |-> sSRB],
     [Country |-> sSrbija, Code |-> sGER]}

\* the rows of code_map.csv in the mapping specification
MapRows ==
    [from_code : {NA, sBlank, sScgPadded, sSCG, sSRB},
     to_code   : {NA, sSRB, sGER}]

\* the mapping tables of the run
RunMapTables ==
    {<<>>,
     <<[from_code |-> sScgPadded, to_code |-> sSRB]>>,
     <<[from_code |-> sSCG, to_code |-> sSRB], [from_code |-> sSRB, to_code |-> sGER]>>}

\* the fact table of the mapping specification: one row for each code
MapFactCodes == <<NA, sBlank, sScgPadded, sSRB, sGER>>

\* read_csv(index_col=0): every row gets its index label
Indexed(rows) ==
    [i \in DOMAIN rows |->
        [c \in DOMAIN rows[i] \cup {"idx"} |-> IF c = "idx" THEN i ELSE rows[i][c]]]

(***************************************************************************)
(* State                                                                   *)
(***************************************************************************)
VARIABLES
    normFn,               \* the normalizer under study: "sq", "ci" or "vs"
    normIn,               \* the series handed to the normalizer
    normOut,              \* the series it returned
    normTwice,            \* what it returned when handed normOut
    normPass,             \* how many times it has been applied
    countries_raw,        \* CountriesSD.csv
    summer_raw,           \* SummerSD.csv
    code_map_rows,        \* code_map.csv
    pc,                   \* position of split_quarantine.main
    countries_clean,
    countries_quarantine,
    code_to_country,
    countries_codes,
    mapping,
    summer_mapped,
    summer_clean,
    summer_quarantine,
    current_year,         \* datetime.now().year as split_summer read it
    summer_remapped,      \* _apply_mapping applied to summer_mapped with the same mapping
    ci_pc,                \* position of check_integrity.main
    ci_code_map,
    ci_summer,            \* find_bad_code_rows' harmonized copy of the fact table
    ci_bad_rows,
    ci_summary,
    pl_pc,                \* position of pipeline.main
    args,                 \* the parsed command line: strict, skip_load
    database_url,         \* os.environ.get("DATABASE_URL"): "unset", "empty" or "set"
    evidence_files,       \* the newest *.json file of each group of evidence directories
    run_dir,              \* whether reports/runs/<run_id> has been created
    steps,                \* the names of the configured steps, in order
    results,              \* the StepResult of every step run so far
    overall_ok,
    stop_reason,
    summary,              \* run_summary.json: <<>> until written, then <<its content>>
    returned              \* <<>> until pipeline.main returns, then <<its return code>>

normVars == <<normFn, normIn, normOut, normTwice, normPass>>

inputVars == <<countries_raw, summer_raw, code_map_rows>>

refVars == <<countries_clean, countries_quarantine, code_to_country, countries_codes>>

factVars ==
    <<mapping, summer_mapped, summer_clean, summer_quarantine, current_year,
      summer_remapped>>

ciVars == <<ci_pc, ci_code_map, ci_summer, ci_bad_rows, ci_summary>>

plVars ==
    <<pl_pc, args, database_url, evidence_files, run_dir, steps, results, overall_ok,
      stop_reason, summary, returned>>

vars == <<normVars, inputVars, pc, refVars, factVars, ciVars, plVars>>

NoSummary == [should_fail |-> FALSE]

\* no file, and the values a step, a summary or a return has before it exists
NoFile == [by |-> "none", run |-> "none", value |-> FALSE]

None == "None"

PlIdle ==
    /\ pl_pc = "idle"
    /\ args = [strict |-> FALSE, skip_load |-> FALSE]
    /\ database_url = "unset"
    /\ evidence_files = [gx |-> NoFile, integrity |-> NoFile]
    /\ run_dir = FALSE
    /\ steps = <<>>
    /\ results = <<>>
    /\ overall_ok = TRUE
    /\ stop_reason = None
    /\ summary = <<>>
    /\ returned = <<>>

NormIdle ==
    /\ normFn = "none"
    /\ normIn = <<>>
    /\ normOut = <<>>
    /\ normTwice = <<>>
    /\ normPass = 0

RefIdle ==
    /\ countries_clean = <<>>
    /\ countries_quarantine = <<>>
    /\ code_to_country = <<>>
    /\ countries_codes = {}

FactIdle ==
    /\ mapping = <<>>
    /\ summer_mapped = <<>>
    /\ summer_clean = <<>>
    /\ summer_quarantine = <<>>
    /\ current_year = 0
    /\ summer_remapped = <<>>

CiIdle(at) ==
    /\ ci_pc = at
    /\ ci_code_map = <<>>
    /\ ci_summer = <<>>
    /\ ci_bad_rows = <<>>
    /\ ci_summary = NoSummary

(***************************************************************************)
(* The normalizers, applied to a series and to their own result            *)
(***************************************************************************)
InitNorm ==
    /\ PlIdle
    /\ normFn = "none"
    /\ normIn \in SeqsUpTo(NormValues, MaxSeriesLen)
    /\ normOut = <<>>
    /\ normTwice = <<>>
    /\ normPass = 0
    /\ countries_raw = <<>>
    /\ summer_raw = <<>>
    /\ code_map_rows = <<>>
    /\ pc = "idle"
    /\ RefIdle
    /\ FactIdle
    /\ CiIdle("idle")

\* the series the next call is handed: the input, then the first result
NormArg == IF normPass = 0 THEN normIn ELSE normOut

ApplyNormalizer(fn, result) ==
    /\ normPass < 2
    /\ normPass > 0 => normFn = fn
    /\ normFn' = fn
    /\ normOut' = IF normPass = 0 THEN result ELSE normOut
    /\ normTwice' = IF normPass = 0 THEN normTwice ELSE result
    /\ normPass' = normPass + 1
    /\ UNCHANGED <<normIn, inputVars, pc, refVars, factVars, ciVars, plVars>>

NormalizeSQ == ApplyNormalizer("sq", _normalize_code_series(NormArg))

NormalizeCI == ApplyNormalizer("ci", normalize_code_series(NormArg))

NormalizeVS == ApplyNormalizer("vs", CodeColumn(normalize_code(CodeFrame(NormArg))))

NextNorm == NormalizeSQ \/ NormalizeCI \/ NormalizeVS

SpecNorm == InitNorm /\ [][NextNorm]_vars

(***************************************************************************)
(* split_quarantine.main, one action for each of its steps                 *)
(***************************************************************************)
\* line 260
SplitCountries ==
    /\ pc = "split_countries"
    /\ IF split_countries_raises(countries_raw)
        THEN /\ pc' = "error"
             /\ UNCHANGED <<countries_clean, countries_quarantine>>
        ELSE /\ LET r == split_countries(countries_raw)
                IN  /\ countries_clean' = r.clean
                    /\ countries_quarantine' = r.quarantine
             /\ pc' = "build_lookup"
    /\ UNCHANGED <<normVars, inputVars, code_to_country, countries_codes, factVars, ciVars, plVars>>

\* the lookup built from every reference row, quarantined ones included
BuildLookupFromRaw ==
    /\ pc = "build_lookup"
    /\ code_to_country' = BuildCodeToCountry(countries_raw)
    /\ countries_codes' = DOMAIN code_to_country'
    /\ pc' = "load_code_map"
    /\ UNCHANGED <<normVars, inputVars, countries_clean, countries_quarantine, factVars, ciVars, plVars>>

\* lines 262-277
BuildLookup ==
    /\ pc = "build_lookup"
    /\ code_to_country' = BuildCodeToCountry(countries_clean)
    /\ countries_codes' = DOMAIN code_to_country'
    /\ pc' = "load_code_map"
    /\ UNCHANGED <<normVars, inputVars, countries_clean, countries_quarantine, factVars, ciVars, plVars>>

\* line 280
LoadCodeMap ==
    /\ pc = "load_code_map"
    /\ mapping' = _load_code_map(code_map_rows)
    /\ pc' = "apply_mapping"
    /\ UNCHANGED <<normVars, inputVars, refVars, summer_mapped, summer_clean,
                   summer_quarantine, current_year, summer_remapped, ciVars, plVars>>

\* an _apply_mapping that rewrites the frame it was handed
ApplyMappingInPlace ==
    /\ pc = "apply_mapping"
    /\ summer_mapped' = _apply_mapping(summer_raw, mapping)
    /\ summer_raw' = summer_mapped'
    /\ pc' = "split_summer"
    /\ UNCHANGED <<normVars, countries_raw, code_map_rows, refVars, mapping, summer_clean,
                   summer_quarantine, current_year, summer_remapped, ciVars, plVars>>

\* a run that normalizes the fact codes and leaves the mapping unapplied
ApplyMappingNormalizeOnly ==
    /\ pc = "apply_mapping"
    /\ summer_mapped' = _apply_mapping(summer_raw, <<>>)
    /\ pc' = "split_summer"
    /\ UNCHANGED <<normVars, inputVars, refVars, mapping, summer_clean,
                   summer_quarantine, current_year, summer_remapped, ciVars, plVars>>

\* line 281
ApplyMapping ==
    /\ pc = "apply_mapping"
    /\ summer_mapped' = _apply_mapping(summer_raw, mapping)
    /\ pc' = "split_summer"
    /\ UNCHANGED <<normVars, inputVars, refVars, mapping, summer_clean,
                   summer_quarantine, current_year, summer_remapped, ciVars, plVars>>

\* _apply_mapping (lines 89-93) applied once more, to its own result
ApplyMappingAgain ==
    /\ pc = "split_summer"
    /\ summer_remapped' = _apply_mapping(summer_mapped, mapping)
    /\ pc' = "reapplied"
    /\ UNCHANGED <<normVars, inputVars, refVars, mapping, summer_mapped, summer_clean,
                   summer_quarantine, current_year, ciVars, plVars>>

\* line 284; the clock is read inside split_summer
SplitSummer ==
    /\ pc = "split_summer"
    /\ IF split_summer_raises(summer_mapped)
        THEN /\ pc' = "error"
             /\ UNCHANGED <<summer_clean, summer_quarantine, current_year>>
        ELSE /\ \E now \in ClockYears :
                    LET r == split_summer(summer_mapped, countries_codes, code_to_country,
                                          now)
                    IN  /\ current_year' = now
                        /\ summer_clean' = r.clean
                        /\ summer_quarantine' = r.quarantine
             /\ pc' = "done"
    /\ UNCHANGED <<normVars, inputVars, refVars, mapping, summer_mapped, summer_remapped,
                   ciVars, plVars>>

(***************************************************************************)
(* check_integrity.main                                                    *)
(***************************************************************************)
\* line 152
CILoadCodeMap ==
    /\ ci_pc = "load_code_map"
    /\ ci_code_map' = load_code_map(code_map_rows)
    /\ ci_pc' = "find_bad_code_rows"
    /\ UNCHANGED <<normVars, inputVars, pc, refVars, factVars, ci_summer, ci_bad_rows,
                   ci_summary, plVars>>

\* lines 154-156
CIFindBadCodeRows ==
    /\ ci_pc = "find_bad_code_rows"
    /\ LET r == find_bad_code_rows(summer_raw, countries_raw, ci_code_map)
       IN  /\ ci_bad_rows' = r.bad_rows
           /\ ci_summary' = r.summary
    /\ ci_summer' = Harmonize(summer_raw, ci_code_map)
    /\ ci_pc' = "done"
    /\ UNCHANGED <<normVars, inputVars, pc, refVars, factVars, ci_code_map, plVars>>

(***************************************************************************)
(* The run: both tables classified from the raw files                      *)
(***************************************************************************)
Init ==
    /\ NormIdle
    /\ PlIdle
    /\ countries_raw \in {Indexed(q) : q \in SeqsUpTo(RunRefRows, MaxRefRows)}
    /\ summer_raw \in {Indexed(q) : q \in SeqsUpTo(RunFactRows, MaxFactRows)}
    /\ code_map_rows \in RunMapTables
    /\ pc = "split_countries"
    /\ RefIdle
    /\ FactIdle
    /\ CiIdle("idle")

Next == SplitCountries \/ BuildLookup \/ LoadCodeMap \/ ApplyMapping \/ SplitSummer

Spec == Init /\ [][Next]_vars

(***************************************************************************)
(* The reference classifier on every reference table                       *)
(***************************************************************************)
InitCountries ==
    /\ NormIdle
    /\ PlIdle
    /\ countries_raw \in {Indexed(q) : q \in SeqsUpTo(RefRows, MaxRefRows)}
    /\ summer_raw = <<>>
    /\ code_map_rows = <<>>
    /\ pc = "split_countries"
    /\ RefIdle
    /\ FactIdle
    /\ CiIdle("idle")

NextCountries == SplitCountries \/ BuildLookup

SpecCountries == InitCountries /\ [][NextCountries]_vars

(***************************************************************************)
(* The fact classifier on one row, with any reference set and lookup       *)
(***************************************************************************)
InitSummer ==
    /\ NormIdle
    /\ PlIdle
    /\ countries_raw = <<>>
    /\ summer_raw = <<>>
    /\ code_map_rows = <<>>
    /\ pc = "split_summer"
    /\ countries_clean = <<>>
    /\ countries_quarantine = <<>>
    /\ code_to_country \in {<<>>, [k \in {sSRB} |-> sSerbia]}
    /\ countries_codes \in SUBSET {sSRB, sBOH}
    /\ mapping = <<>>
    /\ summer_mapped \in {Indexed(<<r>>) : r \in FactRowsWithin(MaxDefects)}
    /\ summer_clean = <<>>
    /\ summer_quarantine = <<>>
    /\ current_year = 0
    /\ summer_remapped = <<>>
    /\ CiIdle("idle")

NextSummer == SplitSummer

SpecSummer == InitSummer /\ [][NextSummer]_vars

(***************************************************************************)
(* The two code-map loaders and the harmonization that uses each           *)
(***************************************************************************)
InitMap ==
    /\ NormIdle
    /\ PlIdle
    /\ countries_raw = Indexed(<<[Country |-> sSerbia, Code |-> sSRB]>>)
    /\ summer_raw = Indexed([i \in DOMAIN MapFactCodes |->
                                [BaseFact EXCEPT !.Code = MapFactCodes[i]]])
    /\ code_map_rows \in SeqsUpTo(MapRows, MaxMapRows)
    /\ pc = "load_code_map"
    /\ RefIdle
    /\ FactIdle
    /\ CiIdle("load_code_map")

NextMap ==
    LoadCodeMap \/ ApplyMapping \/ ApplyMappingAgain \/ CILoadCodeMap \/ CIFindBadCodeRows

SpecMap == InitMap /\ [][NextMap]_vars

(***************************************************************************)
(* The auditor on every reference table, fact table and mapping of the run *)
(***************************************************************************)
\* the reference rows of the audit: one the classifier would quarantine for
\* its blank name, one without a code
AuditRefRows ==
    {[Country |-> sSerbia, Code |-> sSrbPadded],
     [Country |-> sBlank, Code |-> sGER],
     [Country |-> sSrbija, Code |-> NA],
     [Country |-> sBohemia, Code |-> sBOH]}

\* the fact rows of the audit, one for each code
AuditFactRows == {[BaseFact EXCEPT !.Code = c] : c \in {NA, sScgPadded, sSRB, sGER, sBOH}}

InitAudit ==
    /\ NormIdle
    /\ PlIdle
    /\ countries_raw \in {Indexed(q) : q \in SeqsUpTo(AuditRefRows, MaxRefRows)}
    /\ summer_raw \in {Indexed(q) : q \in SeqsUpTo(AuditFactRows, MaxFactRows)}
    /\ code_map_rows \in RunMapTables
    /\ pc = "idle"
    /\ RefIdle
    /\ FactIdle
    /\ CiIdle("load_code_map")

NextAudit == CILoadCodeMap \/ CIFindBadCodeRows

SpecAudit == InitAudit /\ [][NextAudit]_vars

(***************************************************************************)
(* The auditor on fact tables with more unmatched codes than a sample holds *)
(***************************************************************************)
\* the number of codes the fact tables of this specification are drawn from
MaxSampleCodes == 27

\* the codes QAA, QAB, ... in code-point order
SampleCode(k) == <<"Q", UpperLetters[(k \div 26) + 1], UpperLetters[(k % 26) + 1]>>

SampleCodePool == {SampleCode(k) : k \in 0..(MaxSampleCodes - 1)}

Reverse(q) == [i \in DOMAIN q |-> q[Len(q) + 1 - i]]

\* a fact table with one row for each code of S, in ascending or descending
\* order of the codes, followed when extras holds by a row without a code, a
\* row of code BOH and a second row for one of the codes
SampleTable(S, descending, extras) ==
    LET asc   == SortedStrings(S)
        codes == (IF descending THEN Reverse(asc) ELSE asc)
                    \o (IF extras THEN <<NA, sBOH, asc[1]>> ELSE <<>>)
    IN  Indexed([i \in DOMAIN codes |-> [BaseFact EXCEPT !.Code = codes[i]]])

InitSample ==
    /\ NormIdle
    /\ PlIdle
    /\ countries_raw = Indexed(<<[Country |-> sSerbia, Code |-> sSRB]>>)
    /\ \E a \in SampleCodePool, descending, extras \in BOOLEAN :
        \E b \in {a, SampleCode(0)} :
            summer_raw = SampleTable(SampleCodePool \ {a, b}, descending, extras)
    /\ code_map_rows = <<>>
    /\ pc = "idle"
    /\ RefIdle
    /\ FactIdle
    /\ CiIdle("load_code_map")

NextSample == CILoadCodeMap \/ CIFindBadCodeRows

SpecSample == InitSample /\ [][NextSample]_vars

(***************************************************************************)
(* The two classifiers on tables that lack a column                        *)
(***************************************************************************)
DropColumns(df, cols) ==
    [i \in DOMAIN df |-> [c \in DOMAIN df[i] \ cols |-> df[i][c]]]

\* no column, or one of cols
AtMostOneOf(cols) == {{}} \cup {{c} : c \in cols}

InitSchema ==
    /\ NormIdle
    /\ PlIdle
    /\ code_map_rows = <<>>
    /\ summer_raw = <<>>
    /\ countries_clean = <<>>
    /\ countries_quarantine = <<>>
    /\ mapping = <<>>
    /\ summer_clean = <<>>
    /\ summer_quarantine = <<>>
    /\ current_year = 0
    /\ summer_remapped = <<>>
    /\ CiIdle("idle")
    /\ \/ /\ pc = "split_countries"
          /\ countries_raw \in
                {DropColumns(Indexed(q), absent) :
                    q \in SeqsUpTo(RunRefRows, MaxRefRows) \ {<<>>},
                    absent \in AtMostOneOf(COUNTRIES_REQUIRED_COLS)}
          /\ summer_mapped = <<>>
          /\ code_to_country = <<>>
          /\ countries_codes = {}
       \/ /\ pc = "split_summer"
          /\ countries_raw = <<>>
          /\ summer_mapped \in
                {DropColumns(Indexed(<<r>>), absent) :
                    r \in FactRowsWithin(1), absent \in AtMostOneOf(FactCols)}
          /\ code_to_country = [k \in {sSRB} |-> sSerbia]
          /\ countries_codes = {sSRB}

NextSchema == SplitCountries \/ SplitSummer

SpecSchema == InitSchema /\ [][NextSchema]_vars

(***************************************************************************)
(* The classification run and the audit side by side, on the same files    *)
(***************************************************************************)
InitFrame ==
    /\ NormIdle
    /\ PlIdle
    /\ countries_raw \in {Indexed(q) : q \in SeqsUpTo(RunRefRows, 1)}
    /\ summer_raw \in {Indexed(q) : q \in SeqsUpTo(RunFactRows, 1)}
    /\ code_map_rows \in RunMapTables
    /\ pc = "split_countries"
    /\ RefIdle
    /\ FactIdle
    /\ CiIdle("load_code_map")

NextFrame ==
    \/ SplitCountries \/ BuildLookup \/ LoadCodeMap \/ ApplyMapping \/ SplitSummer
    \/ CILoadCodeMap \/ CIFindBadCodeRows

SpecFrame == InitFrame /\ [][NextFrame]_vars

(***************************************************************************)
(* The pipeline runner, pipeline.py                                        *)
(***************************************************************************)
\* the steps main always configures, in the order of its list
BaseSteps ==
    <<"01_validate_countries", "02_validate_summer", "03_check_integrity",
      "04_split_quarantine">>

LoadStep == "05_load_to_postgres"

\* the steps list main builds: the load step is appended unless --skip-load
ConfiguredSteps(skip_load) ==
    IF skip_load THEN BaseSteps ELSE Append(BaseSteps, LoadStep)

\* the directories run_step searches for a step's evidence: gx_validations_hints
\* for the two validators, integrity_hints for the integrity check, none otherwise
EvidenceHints(name) ==
    CASE name \in {"01_validate_countries", "02_validate_summer"} -> "gx"
      [] name = "03_check_integrity" -> "integrity"
      [] OTHER -> "none"

\* what one run of a step's subprocess can do: subprocess.run raises, or the
\* process ends with a return code, having written its evidence file (with the
\* verdict it reached) or not
StepOutcomes(name) ==
    {[raised |-> TRUE, returncode |-> 999, wrote |-> FALSE, verdict |-> FALSE]}
    \cup
    {[raised |-> FALSE, returncode |-> rc, wrote |-> FALSE, verdict |-> FALSE] : rc \in {0, 1}}
    \cup
    (IF EvidenceHints(name) = "none"
     THEN {}
     ELSE {[raised |-> FALSE, returncode |-> rc, wrote |-> TRUE, verdict |-> v] :
              rc \in {0, 1}, v \in BOOLEAN})

\* the evidence directories after the subprocess: a step that writes a file
\* leaves the newest file of its directory group; the file holds "success" for a
\* validator and "should_fail" for the integrity check
FilesAfter(files, name, outcome) ==
    IF outcome.wrote
    THEN [files EXCEPT ![EvidenceHints(name)] =
            [by |-> name, run |-> "current",
             value |-> IF name = "03_check_integrity" THEN ~outcome.verdict
                       ELSE outcome.verdict]]
    ELSE files

\* the newest file by modification time in the hinted directories
newest_file_any(files, hints) ==
    IF hints = "none" THEN NoFile ELSE files[hints]

NoMetrics == [key |-> "none", value |-> FALSE]

\* parse_gx_result keeps "success", parse_integrity_summary keeps "should_fail"
ParseEvidence(name, evidence_path) ==
    IF evidence_path = NoFile
    THEN NoMetrics
    ELSE [key |-> IF name = "03_check_integrity" THEN "should_fail" ELSE "success",
          value |-> evidence_path.value]

\* run_step: the StepResult of a step whose subprocess had the given outcome
run_step(name, outcome, files) ==
    IF outcome.raised
    THEN [name |-> name, ok |-> FALSE, returncode |-> 999, evidence_json |-> NoFile,
          parsed_metrics |-> NoMetrics, error |-> "exception"]
    ELSE LET ok == outcome.returncode = 0
             evidence_path == newest_file_any(files, EvidenceHints(name))
         IN [name |-> name, ok |-> ok, returncode |-> outcome.returncode,
             evidence_json |-> evidence_path,
             parsed_metrics |-> ParseEvidence(name, evidence_path),
             error |-> IF ok THEN None ELSE "return code"]

\* the checks main makes on a result beyond its return code
ApplyEvidence(r, strict) ==
    IF /\ r.name \in {"01_validate_countries", "02_validate_summer"}
       /\ r.parsed_metrics.key = "success"
       /\ r.parsed_metrics.value = FALSE
    THEN [r EXCEPT !.ok = FALSE,
                   !.error = IF r.error = None THEN "GX validation success=false" ELSE r.error]
    ELSE IF /\ r.name = "03_check_integrity"
            /\ strict
            /\ r.parsed_metrics.key = "should_fail"
            /\ r.parsed_metrics.value = TRUE
         THEN [r EXCEPT !.ok = FALSE,
                        !.error = IF r.error = None THEN "should_fail=true" ELSE r.error]
         ELSE r

MissingDatabaseUrlUnsetOnly(skip_load, url) == ~skip_load /\ url = "unset"

\* main leaves before doing anything when the load step is wanted and
\* DATABASE_URL is unset or empty
MissingDatabaseUrl(skip_load, url) == ~skip_load /\ url \in {"unset", "empty"}

StopsNever(r, strict) == FALSE

StopsOnAnyFailure(r, strict) == ~r.ok

\* the loop breaks after a failed step in strict mode
StopsAfter(r, strict) == ~r.ok /\ strict

ReturnCode(ok) == IF ok THEN 0 ELSE 2

\* main up to the loop: the early return, or the run directory and the steps list
PipelineStart ==
    /\ pl_pc = "main"
    /\ IF MissingDatabaseUrl(args.skip_load, database_url)
       THEN /\ returned' = <<2>>
            /\ pl_pc' = "returned"
            /\ UNCHANGED <<run_dir, steps, results, overall_ok, stop_reason>>
       ELSE /\ run_dir' = TRUE
            /\ steps' = ConfiguredSteps(args.skip_load)
            /\ results' = <<>>
            /\ overall_ok' = TRUE
            /\ stop_reason' = None
            /\ pl_pc' = "loop"
            /\ UNCHANGED returned
    /\ UNCHANGED <<normVars, inputVars, pc, refVars, factVars, ciVars, args, database_url,
                   evidence_files, summary>>

\* one iteration of the loop over steps: the subprocess, run_step, the checks on
\* the evidence, and the break
RunStep ==
    /\ pl_pc = "loop"
    /\ Len(results) < Len(steps)
    /\ LET name == steps[Len(results) + 1]
       IN \E outcome \in StepOutcomes(name) :
            LET files == FilesAfter(evidence_files, name, outcome)
                r == ApplyEvidence(run_step(name, outcome, files), args.strict)
            IN /\ evidence_files' = files
               /\ results' = Append(results, r)
               /\ overall_ok' = (overall_ok /\ r.ok)
               /\ stop_reason' = IF StopsAfter(r, args.strict) THEN r.error ELSE stop_reason
               /\ pl_pc' = IF StopsAfter(r, args.strict) \/ Len(results) + 1 = Len(steps)
                           THEN "summary" ELSE "loop"
    /\ UNCHANGED <<normVars, inputVars, pc, refVars, factVars, ciVars, args, database_url,
                   run_dir, steps, summary, returned>>

\* main after the loop: run_summary.json and the return code
WriteSummary ==
    /\ pl_pc = "summary"
    /\ summary' = <<[strict_mode |-> args.strict, skip_load |-> args.skip_load,
                   overall_ok |-> overall_ok, stop_reason |-> stop_reason,
                   steps |-> results]>>
    /\ returned' = <<ReturnCode(overall_ok)>>
    /\ pl_pc' = "returned"
    /\ UNCHANGED <<normVars, inputVars, pc, refVars, factVars, ciVars, args, database_url,
                   evidence_files, run_dir, steps, results, overall_ok, stop_reason>>

\* the newest evidence file an earlier run can have left in a directory group
EarlierFiles(hints) ==
    {NoFile} \cup
    {[by |-> IF hints = "gx" THEN "02_validate_summer" ELSE "03_check_integrity",
      run |-> "earlier", value |-> v] : v \in BOOLEAN}

InitPipeline ==
    /\ NormIdle
    /\ countries_raw = <<>>
    /\ summer_raw = <<>>
    /\ code_map_rows = <<>>
    /\ pc = "idle"
    /\ RefIdle
    /\ FactIdle
    /\ CiIdle("idle")
    /\ pl_pc = "main"
    /\ args \in [strict : BOOLEAN, skip_load : BOOLEAN]
    /\ database_url \in {"unset", "empty", "set"}
    /\ evidence_files \in [gx : EarlierFiles("gx"), integrity : EarlierFiles("integrity")]
    /\ run_dir = FALSE
    /\ steps = <<>>
    /\ results = <<>>
    /\ overall_ok = TRUE
    /\ stop_reason = None
    /\ summary = <<>>
    /\ returned = <<>>

NextPipeline == PipelineStart \/ RunStep \/ WriteSummary

SpecPipeline == InitPipeline /\ [][NextPipeline]_vars

(***************************************************************************)
(* Claims                                                                  *)
(***************************************************************************)
\* o is v without its surrounding whitespace and with its letters upper-cased
IsTrimmedUpperOf(o, v) ==
    /\ ~IsNA(o)
    /\ \E a \in 0..Len(v) :
        /\ a + Len(o) <= Len(v)
        /\ \A k \in 1..a : v[k] \in Whitespace
        /\ \A k \in (a + Len(o) + 1)..Len(v) : v[k] \in Whitespace
        /\ \A k \in 1..Len(o) :
            /\ IsLower(v[a + k]) =>
                    \E n \in DOMAIN LowerLetters :
                        LowerLetters[n] = v[a + k] /\ o[k] = UpperLetters[n]
            /\ ~IsLower(v[a + k]) => o[k] = v[a + k]
        /\ Len(o) > 0 => v[a + 1] \notin Whitespace /\ v[a + Len(o)] \notin Whitespace

\* C8: each of the three normalizers returns a series as long as its input;
\* a non-null value comes back trimmed and upper-cased, a null value comes
\* back null (not "NAN", not "")
Thm_C8_NormalizerContract ==
    normPass >= 1 =>
        /\ Len(normOut) = Len(normIn)
        /\ \A i \in 1..Len(normIn) :
            /\ IsNA(normIn[i]) => IsNA(normOut[i])
            /\ ~IsNA(normIn[i]) => IsTrimmedUpperOf(normOut[i], normIn[i])

Wit_C8_NormalizerContract ==
    /\ normPass = 1
    /\ normFn = "ci"
    /\ Len(normIn) = 2
    /\ normIn[1] = NA /\ normOut[1] = NA
    /\ normIn[2] = <<" ", "a", " ">> /\ normOut[2] = <<"A">>

\* C9: a normalizer handed its own result returns it unchanged
Thm_C9_NormalizeIdempotent ==
    normPass = 2 => normTwice = normOut

Wit_C9_NormalizeIdempotent ==
    /\ normPass = 2
    /\ normFn = "sq"
    /\ Len(normIn) = 2
    /\ normIn[1] = <<" ", " ", "a">> /\ normOut[1] = <<"A">> /\ normTwice[1] = <<"A">>
    /\ normIn[2] = NA /\ normTwice[2] = NA

\* the rows of both frames of a split
OutRows(clean, quarantine) == Range(clean) \cup Range(quarantine)

\* clean and quarantine hold every row of df exactly once between them, with
\* the columns in same unchanged
IsPartitionOf(df, clean, quarantine, same) ==
    /\ Len(clean) + Len(quarantine) = Len(df)
    /\ \A i \in DOMAIN df :
        LET inClean == {k \in DOMAIN clean : clean[k].idx = df[i].idx}
            inQuar  == {k \in DOMAIN quarantine : quarantine[k].idx = df[i].idx}
        IN  /\ Cardinality(inClean) + Cardinality(inQuar) = 1
            /\ \A k \in inClean : \A c \in same : clean[k][c] = df[i][c]
            /\ \A k \in inQuar : \A c \in same : quarantine[k][c] = df[i][c]

\* C1: split_countries and split_summer each return a clean and a quarantine
\* frame that hold every input row exactly once between them
Thm_C1_Partition ==
    /\ pc # "split_countries" =>
            IsPartitionOf(countries_raw, countries_clean, countries_quarantine, {"Country"})
    /\ pc = "done" =>
            IsPartitionOf(summer_mapped, summer_clean, summer_quarantine,
                          FactCols \ {"Code", "Gender", "Medal", "Country"})

Wit_C1_Partition ==
    /\ pc = "done"
    /\ Len(countries_clean) >= 1 /\ Len(countries_quarantine) >= 1
    /\ Len(summer_clean) >= 1 /\ Len(summer_quarantine) >= 1

\* the six rules of the fact classifier, on a row as split_summer returns it
FailsRequired(r) ==
    \E c \in FactCols : IsNA(r[c]) \/ (c # "Year" /\ StrStrip(r[c]) = <<>>)

FailsCodeFormat(r) ==
    ~(~IsNA(r.Code) /\ Len(r.Code) = 3 /\ \A k \in 1..3 : r.Code[k] \in Range(UpperLetters))

FailsMedal(r) == r.Medal \notin {sGold, sSilver, sBronze}

FailsYear(r, now) ==
    LET y == ToNumeric(r.Year) IN y.isna \/ ~(1896 <= y.num /\ y.num <= now)

FailsGender(r) == r.Gender \notin {sMen, sWomen}

FailsReference(r, codes) == r.Code \notin codes

FailedRules(r, now, codes) ==
    <<FailsRequired(r), FailsCodeFormat(r), FailsMedal(r), FailsYear(r, now),
      FailsGender(r), FailsReference(r, codes)>>

RuleLabels ==
    <<MISSING_REQUIRED, INVALID_CODE_FORMAT, INVALID_MEDAL, INVALID_YEAR,
      INVALID_GENDER, CODE_NOT_IN_COUNTRIES>>

\* C2: the reason of a quarantined fact row is one label, that of the first
\* rule the row fails in the order missing_required, invalid_code_format,
\* invalid_medal, invalid_year, invalid_gender, code not in the reference
Thm_C2_FirstFailingRule ==
    pc = "done" =>
        \A k \in DOMAIN summer_quarantine :
            LET r == summer_quarantine[k]
                failed == FailedRules(r, current_year, countries_codes)
            IN  \E n \in 1..6 :
                    /\ r.quarantine_reason = RuleLabels[n]
                    /\ failed[n]
                    /\ \A j \in 1..(n - 1) : ~failed[j]

Wit_C2_FirstFailingRule ==
    /\ pc = "done"
    /\ \E k \in DOMAIN summer_quarantine :
        /\ IsNA(summer_quarantine[k].Code)
        /\ summer_quarantine[k].Medal = <<"g","o","l","d">>
        /\ summer_quarantine[k].quarantine_reason = MISSING_REQUIRED

CodesOf(df) == {df[i].Code : i \in DOMAIN df}

Rows1850 == {r \in OutRows(summer_clean, summer_quarantine) : r.Year = s1850}

\* C5 as stated: a row of year 1850 is quarantined as invalid_year whatever
\* its other defects, and as missing_required when a required field is blank
Orig_C5_Year1850 ==
    pc = "done" =>
        \A r \in Rows1850 :
            r.quarantine_reason =
                IF FailsRequired(r) THEN MISSING_REQUIRED ELSE INVALID_YEAR

\* C5, amended: a row of year 1850 is never clean; its reason is
\* missing_required when a required field is blank, else invalid_code_format
\* when its code has not the format, else invalid_medal when its medal is
\* not valid, else invalid_year, whatever its gender and whether or not its
\* code is in the reference
Thm_C5_Year1850 ==
    pc = "done" =>
        \A r \in Rows1850 :
            r.quarantine_reason =
                IF FailsRequired(r) THEN MISSING_REQUIRED
                ELSE IF FailsCodeFormat(r) THEN INVALID_CODE_FORMAT
                ELSE IF FailsMedal(r) THEN INVALID_MEDAL
                ELSE INVALID_YEAR

Wit_C5_Year1850 ==
    /\ pc = "done"
    /\ \E r \in Rows1850 :
        /\ r.Gender = <<"m","e","n">>
        /\ r.Code \notin countries_codes
        /\ r.quarantine_reason = INVALID_YEAR

\* the row of a split of df that carries the index label of df[i]
OutRowOf(i, df, clean, quarantine) ==
    CHOOSE o \in OutRows(clean, quarantine) : o.idx = df[i].idx

\* C6: a reference row is missing_required when its name or code is null,
\* empty or whitespace-only, otherwise invalid_code_format when its
\* normalized code is not three capital letters, otherwise clean
Thm_C6_ReferenceRules ==
    pc # "split_countries" =>
        \A i \in DOMAIN countries_raw :
            LET raw == countries_raw[i]
                o == OutRowOf(i, countries_raw, countries_clean, countries_quarantine)
                blank(v) == IsNA(v) \/ \A k \in DOMAIN v : v[k] \in Whitespace
                expected ==
                    IF blank(raw.Country) \/ blank(raw.Code) THEN MISSING_REQUIRED
                    ELSE IF ~(Len(o.Code) = 3 /\ \A k \in 1..3 : o.Code[k] \in Range(UpperLetters))
                        THEN INVALID_CODE_FORMAT
                    ELSE NA
            IN  /\ ~IsNA(raw.Code) => IsTrimmedUpperOf(o.Code, raw.Code)
                /\ o.quarantine_reason = expected
                /\ o \in Range(countries_clean) <=> expected = NA

Wit_C6_ReferenceRules ==
    /\ pc # "split_countries"
    /\ \E k \in DOMAIN countries_quarantine :
        /\ countries_quarantine[k].Country = sBlank
        /\ countries_quarantine[k].Code = sSR
        /\ countries_quarantine[k].quarantine_reason = MISSING_REQUIRED
    /\ \E k \in DOMAIN countries_quarantine :
        /\ countries_quarantine[k].quarantine_reason = INVALID_CODE_FORMAT

\* C7: no two clean reference rows share a code or a name, and the lookup
\* built from the clean rows holds exactly one entry for each of them
Orig_C7_CleanReferenceUnique ==
    pc = "load_code_map" =>
        /\ \A i, j \in DOMAIN countries_clean :
            i # j => /\ countries_clean[i].Code # countries_clean[j].Code
                     /\ countries_clean[i].Country # countries_clean[j].Country
        /\ Cardinality(DOMAIN code_to_country) = Len(countries_clean)

\* what main builds instead: one entry for each distinct code of the clean
\* reference rows and one for BOH; BOH maps to Bohemia and any other code to
\* the trimmed name of the last clean row that has it, the names of the
\* earlier rows with that code being shadowed
Aux_C7_LookupLastCleanRow ==
    pc = "load_code_map" =>
        /\ DOMAIN code_to_country = CodesOf(countries_clean) \cup {sBOH}
        /\ countries_codes = DOMAIN code_to_country
        /\ code_to_country[sBOH] = sBohemia
        /\ \A i \in DOMAIN countries_clean :
            LET c == countries_clean[i].Code
            IN  (c # sBOH /\ \A j \in DOMAIN countries_clean :
                                countries_clean[j].Code = c => j <= i)
                    => IsTrimmedUpperOf(StrUpper(code_to_country[c]),
                                        countries_clean[i].Country)
                       /\ Len(code_to_country[c]) = Len(StrStrip(countries_clean[i].Country))
                       /\ \A k \in DOMAIN code_to_country[c] :
                            \E n \in DOMAIN countries_clean[i].Country :
                                countries_clean[i].Country[n] = code_to_country[c][k]

Aux_C7_ShadowedName ==
    /\ pc = "load_code_map"
    /\ Len(countries_clean) = 2
    /\ countries_clean[1].Code = sSRB /\ countries_clean[1].Country = sSerbiaPadded
    /\ countries_clean[2].Code = sSRB /\ countries_clean[2].Country = sSrbija
    /\ code_to_country[sSRB] = sSrbija

\* the code a fact row has after normalization alone
NormalizedRawCode(i) == _normalize_code_series(Column(summer_raw, "Code"))[i]

\* C10: in both loaders a row of the mapping table whose from_code is null
\* or blank gives the mapping no entry, and harmonization leaves every fact
\* row whose code is null or blank as normalization left it
Orig_C10_BlankFromCodeDropped ==
    /\ pc \in {"apply_mapping", "split_summer"} =>
            NA \notin DOMAIN mapping /\ <<>> \notin DOMAIN mapping
    /\ pc = "split_summer" =>
            \A i \in DOMAIN summer_raw :
                IsMissingStr(summer_raw[i].Code) => summer_mapped[i].Code = NormalizedRawCode(i)
    /\ ci_pc \in {"find_bad_code_rows", "done"} =>
            NA \notin DOMAIN ci_code_map /\ <<>> \notin DOMAIN ci_code_map
    /\ ci_pc = "done" =>
            \A i \in DOMAIN summer_raw :
                IsMissingStr(summer_raw[i].Code) => ci_summer[i].Code = NormalizedRawCode(i)

\* the part of C10 that is about split_quarantine._load_code_map
Aux_C10_SplitQuarantineLoader ==
    /\ pc \in {"apply_mapping", "split_summer"} =>
            NA \notin DOMAIN mapping /\ <<>> \notin DOMAIN mapping
    /\ pc = "split_summer" =>
            \A i \in DOMAIN summer_raw :
                IsMissingStr(summer_raw[i].Code) => summer_mapped[i].Code = NormalizedRawCode(i)

\* the code a fact row must have after one application of the mapping m
OneHop(i, m) ==
    LET c == NormalizedRawCode(i) IN IF c \in DOMAIN m THEN m[c] ELSE c

\* C11: after harmonization, in split_quarantine and in check_integrity, the
\* code of every fact row is mapping[c] when its normalized code c is a key
\* of the mapping and c otherwise, so that with A->B and B->C a row of code
\* A ends with B and a row of code B with C
Thm_C11_SingleHop ==
    /\ pc \in {"split_summer", "reapplied"} =>
            \A i \in DOMAIN summer_raw : summer_mapped[i].Code = OneHop(i, mapping)
    /\ ci_pc = "done" =>
            \A i \in DOMAIN summer_raw : ci_summer[i].Code = OneHop(i, ci_code_map)

Wit_C11_SingleHop ==
    /\ pc = "split_summer" /\ ci_pc = "done"
    /\ mapping = ci_code_map
    /\ DOMAIN mapping = {sSCG, sSRB}
    /\ mapping[sSCG] = sSRB /\ mapping[sSRB] = sGER
    /\ \E i, j \in DOMAIN summer_raw :
        /\ summer_raw[i].Code = sScgPadded /\ summer_raw[j].Code = sSRB
        /\ summer_mapped[i].Code = sSRB /\ summer_mapped[j].Code = sGER
        /\ ci_summer[i].Code = sSRB /\ ci_summer[j].Code = sGER

\* one more application of the mapping m to the code c
Hop(c, m) == IF c \in DOMAIN m THEN m[c] ELSE c

\* C12 as stated: the mapping applied twice gives the codes it gives when
\* applied once
Orig_C12_MappingIdempotent ==
    pc = "reapplied" =>
        \A i \in DOMAIN summer_raw : summer_remapped[i].Code = summer_mapped[i].Code

\* C12, amended: the second application rewrites exactly the rows whose code
\* after the first is itself a key of the mapping, to that key's target; a
\* row whose code after the first application is no key, or a key mapped to
\* itself, has the same code after both
Thm_C12_SecondHop ==
    pc = "reapplied" =>
        \A i \in DOMAIN summer_raw :
            LET once  == summer_mapped[i].Code
                twice == summer_remapped[i].Code
            IN  /\ twice = Hop(Hop(NormalizedRawCode(i), mapping), mapping)
                /\ (once \notin DOMAIN mapping \/ mapping[once] = once) => twice = once
                /\ (once \in DOMAIN mapping /\ mapping[once] # once) =>
                        twice = mapping[once] /\ twice # once

Wit_C12_SecondHop ==
    /\ pc = "reapplied"
    /\ \E i, j \in DOMAIN summer_raw :
        /\ summer_raw[i].Code = sScgPadded
        /\ summer_mapped[i].Code = sSRB /\ summer_remapped[i].Code = sGER
        /\ summer_raw[j].Code = sGER
        /\ summer_mapped[j].Code = sGER /\ summer_remapped[j].Code = sGER

\* the fact rows that harmonization by m alters: their normalized code is a
\* key of m with another code as its target
AlteredRows(m) ==
    {i \in DOMAIN summer_raw :
        LET c == NormalizedRawCode(i)
        IN  ~IsNA(c) /\ c \in DOMAIN m /\ m[c] # c}

\* C13: mapped_rows_count is the number of fact rows whose normalized code
\* is a key of the mapping with a different target; rows with a null code,
\* with a code that is no key or mapped to itself are not counted, and the
\* count is 0 without a mapping
Orig_C13_MappedRowsCount ==
    ci_pc = "done" =>
        ci_summary.mapped_rows_count = Cardinality(AlteredRows(ci_code_map))

\* what find_bad_code_rows counts when the mapping table has no null or
\* blank from_code and is not empty: the altered rows and, Code_raw != Code
\* being true of two nulls, every row with a null code
Aux_C13_CountWithoutNullCodes ==
    (/\ ci_pc = "done"
     /\ \A k \in DOMAIN code_map_rows : ~IsMissingStr(code_map_rows[k].from_code)
     /\ ci_code_map # <<>>)
        => ci_summary.mapped_rows_count
                = Cardinality(AlteredRows(ci_code_map))
                  + Cardinality({i \in DOMAIN summer_raw : IsNA(summer_raw[i].Code)})

\* every field of the fact row r outside cols is valid as it stands
FieldsValidBesides(r, now, cols) ==
    /\ \A c \in FactCols \ cols : ~IsNA(r[c])
    /\ \A c \in FactCols \ (cols \cup {"Year"}) : StrStrip(r[c]) # <<>>
    /\ r.Gender \in {sMen, sWomen}
    /\ r.Medal \in {sGold, sSilver, sBronze}
    /\ ~FailsYear(r, now)

OtherFieldsValid(r, now) == FieldsValidBesides(r, now, {"Code"})

\* C14: a fact row whose normalized code c is no clean reference code but a
\* key of the mapping, with mapping[c] a clean reference code and its other
\* fields valid, ends the run in the clean frame with the code mapping[c]
Thm_C14_HarmonizedThenChecked ==
    pc = "done" =>
        \A i \in DOMAIN summer_raw :
            LET c == NormalizedRawCode(i)
            IN  (/\ c \notin CodesOf(countries_clean)
                 /\ c \in DOMAIN mapping
                 /\ mapping[c] \in CodesOf(countries_clean)
                 /\ OtherFieldsValid(summer_raw[i], current_year))
                    => \E k \in DOMAIN summer_clean :
                        /\ summer_clean[k].idx = summer_raw[i].idx
                        /\ summer_clean[k].Code = mapping[c]

Wit_C14_HarmonizedThenChecked ==
    /\ pc = "done"
    /\ sSCG \notin CodesOf(countries_clean)
    /\ \E j \in DOMAIN countries_clean :
        countries_clean[j].Code = sSRB /\ countries_clean[j].Country = sSerbia
    /\ sSCG \in DOMAIN mapping /\ mapping[sSCG] = sSRB
    /\ \E i \in DOMAIN summer_raw, k \in DOMAIN summer_clean :
        /\ summer_raw[i].Code = sScgPadded
        /\ summer_clean[k].idx = summer_raw[i].idx
        /\ summer_clean[k].Code = sSRB

\* C15: a fact row with a null, empty or whitespace-only country gets the
\* name the lookup has for its normalized code before the required fields
\* are checked, and is then clean when its code is a well-formed reference
\* code and its other fields are valid; when the lookup has no name for the
\* code the country stays missing and the row is quarantined as
\* missing_required
Thm_C15_BackfillBeforeChecks ==
    pc = "done" =>
        \A i \in DOMAIN summer_mapped :
            LET r == summer_mapped[i]
                c == _normalize_code_series(Column(summer_mapped, "Code"))[i]
                o == OutRowOf(i, summer_mapped, summer_clean, summer_quarantine)
            IN  (IsNA(r.Country) \/ \A k \in DOMAIN r.Country : r.Country[k] \in Whitespace) =>
                    IF c \in DOMAIN code_to_country
                        THEN /\ o.Country = code_to_country[c]
                             /\ (/\ FieldsValidBesides(r, current_year, {"Code", "Country"})
                                  /\ ~FailsCodeFormat(o)
                                  /\ c \in countries_codes)
                                    => o \in Range(summer_clean)
                        ELSE /\ IsNA(o.Country) \/ o.Country = <<>>
                             /\ o \in Range(summer_quarantine)
                             /\ o.quarantine_reason = MISSING_REQUIRED

Wit_C15_BackfillBeforeChecks ==
    /\ pc = "done"
    /\ summer_mapped[1].Country = sBlank
    /\ summer_mapped[1].Code = sSRB
    /\ Len(summer_clean) = 1
    /\ summer_clean[1].Country = sSerbia

\* x is v with whitespace, and nothing else, before and after it
IsPaddedFormOf(x, v) ==
    /\ ~IsNA(x)
    /\ \E a \in 0..Len(x) :
        /\ a + Len(v) <= Len(x)
        /\ SubSeq(x, a + 1, a + Len(v)) = v
        /\ \A k \in (1..a) \cup ((a + Len(v) + 1)..Len(x)) : x[k] \in Whitespace

\* C16 as stated: a row is clean only if its medal, as it came in, is one of
\* Gold, Silver, Bronze and its gender, as it came in, one of Men, Women
Orig_C16_ExactMedalGender ==
    pc = "done" =>
        \A i \in DOMAIN summer_mapped :
            OutRowOf(i, summer_mapped, summer_clean, summer_quarantine) \in Range(summer_clean)
                => /\ summer_mapped[i].Medal \in {sGold, sSilver, sBronze}
                   /\ summer_mapped[i].Gender \in {sMen, sWomen}

\* C16, amended: a row is clean only if its medal is one of Gold, Silver,
\* Bronze and its gender one of Men, Women, case-sensitively, once the
\* whitespace around the value is removed; a null value, another case or
\* other characters quarantine the row, and a row that fails nothing else
\* gets the reason invalid_medal, or invalid_gender when its medal is valid
Thm_C16_TrimmedMedalGender ==
    pc = "done" =>
        \A i \in DOMAIN summer_mapped :
            LET r == summer_mapped[i]
                o == OutRowOf(i, summer_mapped, summer_clean, summer_quarantine)
                medalOk  == \E v \in {sGold, sSilver, sBronze} : IsPaddedFormOf(r.Medal, v)
                genderOk == \E v \in {sMen, sWomen} : IsPaddedFormOf(r.Gender, v)
            IN  /\ o \in Range(summer_clean) => medalOk /\ genderOk
                /\ (~medalOk /\ ~FailsRequired(o) /\ ~FailsCodeFormat(o))
                        => o.quarantine_reason = INVALID_MEDAL
                /\ (medalOk /\ ~genderOk /\ ~FailsRequired(o) /\ ~FailsCodeFormat(o)
                        /\ ~FailsYear(o, current_year))
                        => o.quarantine_reason = INVALID_GENDER

Wit_C16_TrimmedMedalGender ==
    /\ pc = "done"
    /\ summer_mapped[1].Medal = <<"G", "o", "l", "d", " ">>
    /\ summer_mapped[1].Gender = <<" ", "M", "e", "n">>
    /\ Len(summer_clean) = 1
    /\ summer_clean[1].Medal = sGold /\ summer_clean[1].Gender = sMen

\* C17: the year of a clean fact row parses as a number from 1896 to the
\* current year, both included; a row whose year is present and either does
\* not parse or lies outside that range, and that fails none of the rules
\* before the year rule, is quarantined as invalid_year, and no row with a
\* year in the range is
Thm_C17_YearRange ==
    pc = "done" =>
        \A i \in DOMAIN summer_mapped :
            LET o == OutRowOf(i, summer_mapped, summer_clean, summer_quarantine)
                y == ToNumeric(summer_mapped[i].Year)
                inRange == ~y.isna /\ 1896 <= y.num /\ y.num <= current_year
            IN  /\ o \in Range(summer_clean) => inRange
                /\ (/\ ~IsNA(summer_mapped[i].Year)
                     /\ ~inRange
                     /\ ~FailsRequired(o) /\ ~FailsCodeFormat(o) /\ ~FailsMedal(o))
                        => /\ o \in Range(summer_quarantine)
                           /\ o.quarantine_reason = INVALID_YEAR
                /\ o.quarantine_reason = INVALID_YEAR => ~inRange

Wit_C17_YearRange ==
    /\ pc = "done"
    /\ summer_mapped[1].Year = s2027 /\ current_year = 2027
    /\ Len(summer_clean) = 1
    /\ summer_clean[1].Year = s2027

\* the normalized codes of every row of the raw reference table
RawReferenceCodes == Range(normalize_code_series(Column(countries_raw, "Code"))) \ {NA}

\* the fact rows the audit must report: their harmonized code is null or no
\* code of the raw reference table
NullCodeRows == {i \in DOMAIN summer_raw : IsNA(OneHop(i, ci_code_map))}

UnmatchedRows ==
    {i \in DOMAIN summer_raw :
        ~IsNA(OneHop(i, ci_code_map)) /\ OneHop(i, ci_code_map) \notin RawReferenceCodes}

\* C18: find_bad_code_rows returns a fact row as bad exactly when its
\* harmonized code is null or is no normalized code of the raw reference
\* table, rows the classifier would quarantine included; it counts the null
\* rows and the unmatched rows apart, and the total is their sum and the
\* number of rows returned
Thm_C18_BadRows ==
    ci_pc = "done" =>
        /\ {ci_bad_rows[k].idx : k \in DOMAIN ci_bad_rows}
                = {summer_raw[i].idx : i \in NullCodeRows \cup UnmatchedRows}
        /\ Len(ci_bad_rows) = Cardinality(NullCodeRows \cup UnmatchedRows)
        /\ ci_summary.bad_rows_null_code = Cardinality(NullCodeRows)
        /\ ci_summary.bad_rows_code_not_in_countries = Cardinality(UnmatchedRows)
        /\ ci_summary.bad_rows_total
                = ci_summary.bad_rows_null_code + ci_summary.bad_rows_code_not_in_countries
        /\ ci_summary.bad_rows_total = Len(ci_bad_rows)

Wit_C18_BadRows ==
    /\ ci_pc = "done"
    /\ \E j \in DOMAIN countries_raw :
        countries_raw[j].Country = sBlank /\ countries_raw[j].Code = sGER
    /\ Len(summer_raw) = 2
    /\ summer_raw[1].Code = sGER /\ IsNA(summer_raw[2].Code)
    /\ ci_code_map = <<>>
    /\ Len(ci_bad_rows) = 1 /\ ci_bad_rows[1].idx = 2
    /\ ci_summary.bad_rows_null_code = 1
    /\ ci_summary.bad_rows_code_not_in_countries = 0

\* the unmatched fact rows whose harmonized code is not allowlisted
StrictUnmatchedRows ==
    {i \in UnmatchedRows : OneHop(i, ci_code_map) \notin {sBOH}}

\* C19: bad_rows_code_not_in_countries_strict is the number of fact rows
\* whose harmonized code is not null, is no reference code and is not in the
\* historical allowlist, hence the lenient count when no unmatched code is
\* allowlisted
Orig_C19_StrictCountsRows ==
    ci_pc = "done" =>
        /\ ci_summary.bad_rows_code_not_in_countries_strict = Cardinality(StrictUnmatchedRows)
        /\ StrictUnmatchedRows = UnmatchedRows =>
                ci_summary.bad_rows_code_not_in_countries_strict
                    = ci_summary.bad_rows_code_not_in_countries

\* what line 116 computes: the number of distinct codes of those rows
Aux_C19_StrictCountsCodes ==
    ci_pc = "done" =>
        ci_summary.bad_rows_code_not_in_countries_strict
            = Cardinality({OneHop(i, ci_code_map) : i \in StrictUnmatchedRows})

\* the fact rows whose harmonized code is BOH
BohemiaRows == {i \in DOMAIN summer_raw : OneHop(i, ci_code_map) = sBOH}

\* C20: when BOH is no code of the reference table, the fact rows of code
\* BOH are counted in bad_rows_code_not_in_countries and add nothing to
\* bad_rows_code_not_in_countries_strict; when no other row is unmatched
\* the strict count is 0 and should_fail is false
Thm_C20_AllowlistExemption ==
    (ci_pc = "done" /\ sBOH \notin RawReferenceCodes /\ BohemiaRows # {}) =>
        /\ BohemiaRows \subseteq UnmatchedRows
        /\ ci_summary.bad_rows_code_not_in_countries
                = Cardinality(BohemiaRows) + Cardinality(UnmatchedRows \ BohemiaRows)
        /\ ci_summary.bad_rows_code_not_in_countries_strict
                <= Cardinality(UnmatchedRows \ BohemiaRows)
        /\ sBOH \notin Range(ci_summary.unique_bad_codes_strict_sample)
        /\ sBOH \in Range(ci_summary.unique_bad_codes_sample)
        /\ UnmatchedRows = BohemiaRows =>
                /\ ci_summary.bad_rows_code_not_in_countries_strict = 0
                /\ ci_summary.should_fail = FALSE

Wit_C20_AllowlistExemption ==
    /\ ci_pc = "done"
    /\ sBOH \notin RawReferenceCodes
    /\ Len(summer_raw) = 2
    /\ summer_raw[1].Code = sBOH /\ summer_raw[2].Code = sBOH
    /\ ci_summary.bad_rows_code_not_in_countries = 2
    /\ ci_summary.bad_rows_code_not_in_countries_strict = 0
    /\ ci_summary.should_fail = FALSE

\* C21: should_fail is true exactly when the strict count is above 0, or
\* the fail-on-null flag is set and the null count is above 0; the flag is
\* unset, so rows with a null code never make it true; it is a boolean
\* field of the summary find_bad_code_rows returns
Thm_C21_ShouldFail ==
    ci_pc = "done" =>
        /\ "should_fail" \in DOMAIN ci_summary
        /\ ci_summary.should_fail \in BOOLEAN
        /\ ci_summary.should_fail <=>
                \/ ci_summary.bad_rows_code_not_in_countries_strict > 0
                \/ ci_summary.fail_on_null_codes /\ ci_summary.bad_rows_null_code > 0
        /\ ci_summary.fail_on_null_codes = FALSE
        /\ ci_summary.should_fail <=> StrictUnmatchedRows # {}

Wit_C21_ShouldFail ==
    /\ ci_pc = "done"
    /\ NullCodeRows # {}
    /\ ci_summary.bad_rows_null_code = Cardinality(NullCodeRows)
    /\ StrictUnmatchedRows = {}
    /\ ci_summary.should_fail = FALSE

\* the distinct codes of the unmatched fact rows
UnmatchedCodes == {OneHop(i, ci_code_map) : i \in UnmatchedRows}

\* sample holds, in ascending code-point order and once each, the least
\* codes of the set S, all of them or the first 25
IsSampleOf(sample, S) ==
    /\ Len(sample) = (IF Cardinality(S) < 25 THEN Cardinality(S) ELSE 25)
    /\ Range(sample) \subseteq S
    /\ NA \notin Range(sample)
    /\ \A i, j \in DOMAIN sample : i < j => StrLess(sample[i], sample[j])
    /\ \A x \in Range(sample), y \in S \ Range(sample) : StrLess(x, y)

\* C22: each sample holds at most 25 codes, none twice, none null, all of
\* them unmatched codes (the strict one none from the allowlist), and is the
\* start of the unmatched codes in ascending order, which the order of the
\* fact rows does not change; unique_bad_codes_count is the number of
\* distinct unmatched codes, above 25 too
Thm_C22_Samples ==
    ci_pc = "done" =>
        /\ IsSampleOf(ci_summary.unique_bad_codes_sample, UnmatchedCodes)
        /\ IsSampleOf(ci_summary.unique_bad_codes_strict_sample, UnmatchedCodes \ {sBOH})
        /\ ci_summary.unique_bad_codes_count = Cardinality(UnmatchedCodes)

Wit_C22_Samples ==
    /\ ci_pc = "done"
    /\ ci_summary.unique_bad_codes_count = 27
    /\ Len(ci_summary.unique_bad_codes_sample) = 25
    /\ Len(ci_summary.unique_bad_codes_strict_sample) = 25
    /\ summer_raw[1].Code = SampleCode(25)
    /\ ci_summary.unique_bad_codes_sample[1] = sBOH
    /\ ci_summary.unique_bad_codes_strict_sample[1] = SampleCode(0)
    /\ ci_summary.unique_bad_codes_strict_sample[25] = SampleCode(24)

\* C23: for the same reference table, fact table and mapping, a run at any
\* other time gives the clean and quarantine frames, and the reasons in
\* them, that this run gave
Orig_C23_ClockIndependent ==
    /\ pc # "split_countries" =>
            split_countries(countries_raw)
                = [clean |-> countries_clean, quarantine |-> countries_quarantine]
    /\ pc = "done" =>
            \A t \in ClockYears :
                split_summer(summer_mapped, countries_codes, code_to_country, t)
                    = [clean |-> summer_clean, quarantine |-> summer_quarantine]

\* the fact rows on which two runs can disagree: their year is above the
\* year of the earlier run and not above the year of the later one
Aux_C23_DisagreeOnlyOnYear ==
    pc = "done" =>
        \A t \in ClockYears :
            split_summer(summer_mapped, countries_codes, code_to_country, t)
                    # [clean |-> summer_clean, quarantine |-> summer_quarantine]
                => \E i \in DOMAIN summer_mapped :
                    LET y == ToNumeric(summer_mapped[i].Year)
                    IN  ~y.isna /\ (y.num > t) # (y.num > current_year)

\* a column of cols is absent from the frame df
LacksOneOf(df, cols) == \E col \in cols : \E i \in DOMAIN df : col \notin DOMAIN df[i]

\* clean and quarantine are what a classifier returns when it quarantines
\* every row of df as missing_required
AllMissingRequired(df, clean, quarantine) ==
    /\ clean = <<>>
    /\ Len(quarantine) = Len(df)
    /\ \A k \in DOMAIN quarantine : quarantine[k].quarantine_reason = MISSING_REQUIRED

\* C24 as stated: with an expected column absent from its input, neither
\* classifier returns a result
Orig_C24_AbsentColumnFails ==
    /\ LacksOneOf(countries_raw, {"Country", "Code"}) => pc # "build_lookup"
    /\ LacksOneOf(summer_mapped, FactCols) => pc # "done"

\* C24, amended: both classifiers fail with an error when the Code column
\* is absent, and split_summer also when Gender, Medal or Year is; with
\* another expected column absent (Country for either, City, Sport,
\* Discipline, Athlete or Event for split_summer) they return normally with
\* every row quarantined as missing_required
Thm_C24_AbsentColumn ==
    /\ LacksOneOf(countries_raw, {"Code"}) => pc \in {"split_countries", "error"}
    /\ LacksOneOf(summer_mapped, {"Code", "Gender", "Medal", "Year"})
            => pc \in {"split_summer", "error"}
    /\ pc = "error" =>
            \/ LacksOneOf(countries_raw, {"Code"})
            \/ LacksOneOf(summer_mapped, {"Code", "Gender", "Medal", "Year"})
    /\ (~LacksOneOf(countries_raw, {"Code"}) /\ countries_raw # <<>>)
            => pc \in {"split_countries", "build_lookup"}
    /\ (~LacksOneOf(summer_mapped, {"Code", "Gender", "Medal", "Year"})
            /\ summer_mapped # <<>>)
            => pc \in {"split_summer", "done"}
    /\ (pc = "build_lookup" /\ LacksOneOf(countries_raw, {"Country"}))
            => AllMissingRequired(countries_raw, countries_clean, countries_quarantine)
    /\ (pc = "done"
            /\ LacksOneOf(summer_mapped,
                          {"Country", "City", "Sport", "Discipline", "Athlete", "Event"}))
            => AllMissingRequired(summer_mapped, summer_clean, summer_quarantine)

Wit_C24_AbsentColumn ==
    /\ pc = "done"
    /\ Len(summer_mapped) = 1
    /\ DOMAIN summer_mapped[1] = (FactCols \cup {"idx"}) \ {"City"}
    /\ \A c \in FactCols \ {"City"} : summer_mapped[1][c] = BaseFact[c]
    /\ summer_clean = <<>>
    /\ Len(summer_quarantine) = 1
    /\ summer_quarantine[1].quarantine_reason = MISSING_REQUIRED

\* C25: a call of split_countries, _apply_mapping, split_summer or
\* find_bad_code_rows leaves what it was handed as it was: the tables, the
\* mapping, the reference code set and the code-to-name lookup
Thm_C25_InputsUnchanged ==
    [][/\ pc = "split_countries" => countries_raw' = countries_raw
       /\ pc = "apply_mapping" => summer_raw' = summer_raw /\ mapping' = mapping
       /\ pc = "split_summer" =>
            /\ summer_mapped' = summer_mapped
            /\ countries_codes' = countries_codes
            /\ code_to_country' = code_to_country
       /\ ci_pc = "find_bad_code_rows" =>
            /\ summer_raw' = summer_raw
            /\ countries_raw' = countries_raw
            /\ ci_code_map' = ci_code_map]_vars

Wit_C25_InputsUnchanged ==
    /\ pc = "done" /\ ci_pc = "done"
    /\ Len(summer_raw) = 1 /\ Len(countries_raw) = 1
    /\ summer_raw[1].Code = sScgPadded
    /\ countries_raw[1].Code = sSrbPadded
    /\ mapping = [k \in {sSCG} |-> sSRB]
    /\ summer_mapped[1].Code = sSRB
    /\ ci_summer[1].Code = sSRB
    /\ countries_clean[1].Code = sSRB
    /\ "quarantine_reason" \notin DOMAIN summer_mapped[1]
    /\ "quarantine_reason" \notin DOMAIN summer_raw[1]
    /\ "quarantine_reason" \in DOMAIN summer_clean[1]


\* the order in which the runner's steps are listed
FixedOrder ==
    <<"01_validate_countries", "02_validate_summer", "03_check_integrity",
      "04_split_quarantine", "05_load_to_postgres">>

\* the steps started so far were started in the fixed order
StartedInFixedOrder ==
    /\ Len(results) <= Len(FixedOrder)
    /\ \A i \in 1..Len(results) : results[i].name = FixedOrder[i]

\* what makes a result not ok under --strict: a non-zero return code, GX
\* evidence with success=false, or integrity evidence with should_fail=true
StrictFailure(r) ==
    \/ r.returncode # 0
    \/ /\ r.name \in {"01_validate_countries", "02_validate_summer"}
       /\ r.evidence_json # NoFile
       /\ r.evidence_json.value = FALSE
    \/ /\ r.name = "03_check_integrity"
       /\ r.evidence_json # NoFile
       /\ r.evidence_json.value = TRUE

\* C26: with --strict the steps are started in the fixed order; a result is not
\* ok exactly on a non-zero return code, GX evidence with success=false or
\* integrity evidence with should_fail=true; after a result that is not ok no
\* later step is started, stop_reason is set, and once main has returned the
\* run summary is written and carries that stop_reason
Thm_C26_StrictStops ==
    (args.strict /\ pl_pc # "main") =>
        /\ StartedInFixedOrder
        /\ \A i \in 1..Len(results) : results[i].ok <=> ~StrictFailure(results[i])
        /\ \A i \in 1..Len(results) : ~results[i].ok => i = Len(results)
        /\ \A i \in 1..Len(results) :
              ~results[i].ok => (stop_reason # None /\ pl_pc \in {"summary", "returned"})
        /\ (pl_pc = "returned" /\ run_dir) =>
              /\ Len(summary) = 1
              /\ summary[1].stop_reason = stop_reason
              /\ summary[1].steps = results

\* a strict run that stopped at the second step on GX evidence with
\* success=false although the script exited 0, and wrote its summary
Wit_C26_StrictStops ==
    /\ args.strict
    /\ pl_pc = "returned"
    /\ Len(results) = 2
    /\ Len(results) < Len(steps)
    /\ results[1].ok
    /\ ~results[2].ok
    /\ results[2].returncode = 0
    /\ results[2].evidence_json.by = "02_validate_summer"
    /\ results[2].evidence_json.run = "current"
    /\ stop_reason = "GX validation success=false"
    /\ Len(summary) = 1


\* the names of the steps run so far, in the order they were started
StartedNames == [i \in 1..Len(results) |-> results[i].name]

\* what a run without --strict has done once main has returned, as the claim
\* states it: the configured steps once each in the fixed order, no stop_reason,
\* overall_ok exactly when every result is ok, and 0 or 2 returned accordingly
NonStrictRunComplete ==
    /\ StartedNames = SubSeq(FixedOrder, 1, IF args.skip_load THEN 4 ELSE 5)
    /\ stop_reason = None
    /\ overall_ok <=> \A i \in 1..Len(results) : results[i].ok
    /\ returned = <<IF overall_ok THEN 0 ELSE 2>>

Thm_C28_LoadStepAndEarlyExit ==
    /\ \A i \in 1..Len(results) :
          results[i].name = "05_load_to_postgres" =>
              /\ ~args.skip_load
              /\ i = 5
              /\ i = Len(steps)
              /\ SubSeq(StartedNames, 1, 4) = BaseSteps
    /\ (~args.skip_load /\ database_url \in {"unset", "empty"} /\ pl_pc # "main") =>
          /\ pl_pc = "returned"
          /\ returned = <<2>>
          /\ results = <<>>
          /\ ~run_dir
          /\ summary = <<>>
          /\ evidence_files \in
                [gx : EarlierFiles("gx"), integrity : EarlierFiles("integrity")]

\* main has returned 2 on an empty DATABASE_URL without --skip-load, having run nothing
Wit_C28_EarlyExit ==
    /\ ~args.skip_load
    /\ database_url = "empty"
    /\ pl_pc = "returned"
    /\ returned = <<2>>
    /\ results = <<>>


\* C29 as stated: the evidence file attached to a step's result, from which
\* its parsed_metrics are taken, was written by that step in the current run
Orig_C29_EvidenceIsOwn ==
    \A i \in 1..Len(results) :
        results[i].evidence_json # NoFile =>
            /\ results[i].evidence_json.by = results[i].name
            /\ results[i].evidence_json.run = "current"

\* C29, what the code does instead: the attached file is the newest one of the
\* step's directory group, whoever wrote it; it is the step's own only when the
\* step's subprocess wrote one
Aux_C29_EvidenceIsNewest ==
    \A i \in 1..Len(results) :
        LET r == results[i]
        IN (r.evidence_json # NoFile /\ r.evidence_json.by = r.name
                /\ r.evidence_json.run = "current")
           \/ r.evidence_json = NoFile
           \/ /\ r.returncode # 999
              /\ r.evidence_json.run = "earlier"
                    \/ \E j \in 1..(i - 1) : results[j].name = r.evidence_json.by

====
